---- MODULE Spec2Model ----
(***************************************************************************)
(* Model of the two projects of the repository:                            *)
(*   project 4, ices_algs.hpp: iceberg_avoiding_exhaustive and             *)
(*     iceberg_avoiding_dyn_prog, two counters of the monotone right/down  *)
(*     paths of a grid that avoid its iceberg cells;                       *)
(*   project 1, disks.hpp: sort_left_to_right and sort_lawnmower on a row  *)
(*     of alternating disks.                                               *)
(* Each function is a small state machine whose steps are its loop         *)
(* iterations.  ices_types.hpp (grid, path) is not among the sources; the  *)
(* operators that stand for it follow the specification's sections 3, 4.1  *)
(* and 4.2.                                                                *)
(***************************************************************************)
EXTENDS Integers, Sequences, FiniteSets, TLC

VARIABLES
  setting,      \* the grid: [rows, columns, ice (the set of Iceberg cells)]
  pcE,          \* iceberg_avoiding_exhaustive: position in the function
  steps,        \* its local  const size_t steps
  bits,         \* its outer loop variable
  k,            \* its inner loop variable
  candidate,    \* its local  path candidate: [row, col]
  count_paths,  \* its local  unsigned int count_paths
  retE,         \* the value it returned
  pcD,          \* iceberg_avoiding_dyn_prog: position in the function
  i,            \* its outer loop variable
  j,            \* its inner loop variable
  A,            \* its table: the cells written so far; all others hold 0
  retD,         \* the value it returned
  prev,         \* the count of the previous iceberg_avoiding_dyn_prog call
  alg,          \* disks: the algorithm called
  after,        \* disks: the local  disk_state after  (its _colors)
  pcS,          \* disks: position in the function
  iter,         \* disks: the outer loop variable i
  pos,          \* disks: the inner loop variable j or k
  left_sorted,  \* disks: local
  right_sorted, \* disks: local
  max_iter,     \* disks: local
  swap_count    \* disks: local

iceVars  == <<setting, pcE, steps, bits, k, candidate, count_paths, retE,
              pcD, i, j, A, retD, prev>>
exhVars  == <<pcE, steps, bits, k, candidate, count_paths, retE>>
dynVars  == <<pcD, i, j, A, retD>>
diskVars == <<alg, after, pcS, iter, pos, left_sorted, right_sorted,
              max_iter, swap_count>>
vars     == <<setting, pcE, steps, bits, k, candidate, count_paths, retE,
              pcD, i, j, A, retD, prev,
              alg, after, pcS, iter, pos, left_sorted, right_sorted,
              max_iter, swap_count>>

(***************************************************************************)
(* Bounds of the model.                                                    *)
(***************************************************************************)
\* Small grids: every Open/Iceberg assignment of every shape whose path
\* length rows + columns - 2 is at most MaxSteps.
MaxSteps == 4
\* Oversized grids for the exhaustive counter: all-open single lines whose
\* path length is 64 .. 64 + MaxOver.
MaxOver == 1
\* Large grids for the dynamic-programming counter: single lines of up to
\* MaxLine cells, and MinSquare..MaxSquare by MinSquare..MaxSquare blocks.
MaxLine == 101
MinSquare == 17
MaxSquare == 19
\* Rows of disks: 1 .. MaxLight light disks.
MaxLight == 8

(***************************************************************************)
(* Program constants.                                                      *)
(***************************************************************************)
\* assert(steps < 64)
MaxPathSteps == 64
\* the width of size_t, the type of bits, in  (bits >> k)
SizeBits == 64
\* const int DIM=100
DIM == 100

(***************************************************************************)
(* Machine integers.                                                       *)
(*                                                                         *)
(* unsigned (32 bits) is kept exactly, as two 16-bit limbs <<high, low>>.  *)
(* size_t (64 bits) values are naturals; SIZE_MAX stands for 2^64 - 1: it  *)
(* is larger than every size, index and bit pattern the model reaches, and *)
(* a size_t subtraction that would go below 0 wraps to just below it.      *)
(***************************************************************************)
Limb == 2^16
SIZE_MAX == 2^30 - 1

SizeSub(a, b) == IF a >= b THEN a - b ELSE SIZE_MAX - (b - a - 1)

Zero == <<0, 0>>
One == <<0, 1>>
U32(n) == <<n \div Limb, n % Limb>>

\* a + b in unsigned arithmetic: the sum modulo 2^32
U32Add(a, b) ==
  LET lo == a[2] + b[2]
      hi == a[1] + b[1] + (lo \div Limb)
  IN  <<hi % Limb, lo % Limb>>

\* whether the mathematical sum a + b is 2^32 or more
U32Carry(a, b) == (a[1] + b[1] + ((a[2] + b[2]) \div Limb)) >= Limb

U32Less(a, b) == a[1] < b[1] \/ (a[1] = b[1] /\ a[2] < b[2])

\* x >> n for a size_t x below 2^31
ShiftRight(x, n) == IF n > 30 THEN 0 ELSE x \div (2^n)

\* pow(2, s) - 1 for s < 64
PowMinusOne(s) == IF s > 30 THEN SIZE_MAX ELSE 2^s - 1

(***************************************************************************)
(* ices_types.hpp: grid and path.                                          *)
(***************************************************************************)
Cells(r, c) == (0 .. r - 1) \X (0 .. c - 1)

\* a grid of r rows and c columns with the cells of ice Iceberg; the cell
\* (0, 0) is never an Iceberg
Grid(r, c, ice) == [rows |-> r, columns |-> c, ice |-> ice]

IsIceberg(g, r, c) == <<r, c>> \in g.ice

\* path::is_step_valid: the cell after the step is inside the grid and Open
IsStepValid(g, p, dir) ==
  LET r == IF dir = "down" THEN p.row + 1 ELSE p.row
      c == IF dir = "right" THEN p.col + 1 ELSE p.col
  IN  r < g.rows /\ c < g.columns /\ ~IsIceberg(g, r, c)

\* path::add_step
AddStep(p, dir) ==
  IF dir = "down" THEN [p EXCEPT !.row = @ + 1] ELSE [p EXCEPT !.col = @ + 1]

\* path::path: a candidate starts at (0, 0)
NewPath == [row |-> 0, col |-> 0]

\* the shapes and grids the model runs the counters on
GridsOf(r, c) ==
  {Grid(r, c, ice) : ice \in SUBSET (Cells(r, c) \ {<<0, 0>>})}

SmallShapes ==
  {s \in (0 .. MaxSteps + 1) \X (0 .. MaxSteps + 1) :
     s[1] = 0 \/ s[2] = 0 \/ s[1] + s[2] - 2 <= MaxSteps}

SmallGrids == UNION {GridsOf(s[1], s[2]) : s \in SmallShapes}

OversizedGrids ==
  {Grid(s[1], s[2], {}) :
     s \in {s \in (1 .. MaxPathSteps + MaxOver + 1)
                    \X (1 .. MaxPathSteps + MaxOver + 1) :
              /\ s[1] = 1 \/ s[2] = 1
              /\ s[1] + s[2] - 2 >= MaxPathSteps}}

\* large grids: all-open lines and blocks, and the blocks with the one
\* Iceberg (0, 1)
LargeBlocks == (MinSquare .. MaxSquare) \X (MinSquare .. MaxSquare)

LargeLines == {s \in (1 .. MaxLine) \X (1 .. MaxLine) : s[1] = 1 \/ s[2] = 1}

LargeGrids ==
  {Grid(s[1], s[2], {}) : s \in LargeLines \cup LargeBlocks}
    \cup {Grid(s[1], s[2], {<<0, 1>>}) : s \in LargeBlocks}

NonEmpty(g) == g.rows > 0 /\ g.columns > 0
Destination(g) == <<SizeSub(g.rows, 1), SizeSub(g.columns, 1)>>
PathSteps(g) == SizeSub(g.rows + g.columns, 2)

(***************************************************************************)
(* iceberg_avoiding_exhaustive                                             *)
(***************************************************************************)
\* mutant: the entry without  assert(steps < 64)
ExhaustivePreconditionNoLimit(g) ==
  /\ g.rows > 0
  /\ g.columns > 0

\* the three assertions at the entry of iceberg_avoiding_exhaustive
ExhaustivePrecondition(g) ==
  /\ g.rows > 0
  /\ g.columns > 0
  /\ PathSteps(g) < MaxPathSteps

\* the direction bit k of the pattern selects: 1 is right, 0 is down
Direction(b, n) == IF ShiftRight(b, n) % 2 = 1 THEN "right" ELSE "down"

\* one attempted move: the step is taken when valid, skipped otherwise
Attempt(g, p, dir) == IF IsStepValid(g, p, dir) THEN AddStep(p, dir) ELSE p

\* the inner loop's test  k <= steps - 1  (size_t: steps = 0 gives SIZE_MAX)
InnerLoopRuns(n, s) == n <= SizeSub(s, 1)

\* the test that counts a candidate
AtDestination(g, p) == p.row = SizeSub(g.rows, 1) /\ p.col = SizeSub(g.columns, 1)

\* the calls are sequential: a counter is entered when the other is not running
ExhaustiveEntry ==
  /\ pcE = "idle"
  /\ pcD \in {"idle", "done"}
  /\ IF ExhaustivePrecondition(setting)
       THEN /\ pcE' = "outer"
            /\ steps' = PathSteps(setting)
       ELSE /\ pcE' = "failed"
            /\ steps' = steps
  /\ count_paths' = Zero
  /\ bits' = 0
  /\ UNCHANGED <<setting, k, candidate, retE, dynVars, prev, diskVars>>

\* the outer loop's test: the next candidate, or the return
ExhaustiveOuter ==
  /\ pcE = "outer"
  /\ IF bits <= PowMinusOne(steps)
       THEN /\ pcE' = "inner"
            /\ candidate' = NewPath
            /\ k' = 0
            /\ retE' = retE
       ELSE /\ pcE' = "done"
            /\ retE' = count_paths
            /\ UNCHANGED <<candidate, k>>
  /\ UNCHANGED <<setting, steps, bits, count_paths, dynVars, prev, diskVars>>

\* the inner loop: its test, and one attempted move
ExhaustiveInner ==
  /\ pcE = "inner"
  /\ InnerLoopRuns(k, steps) => k < SizeBits
  /\ IF InnerLoopRuns(k, steps)
       THEN /\ candidate' = Attempt(setting, candidate, Direction(bits, k))
            /\ k' = k + 1
            /\ pcE' = "inner"
       ELSE /\ pcE' = "check"
            /\ UNCHANGED <<candidate, k>>
  /\ UNCHANGED <<setting, steps, bits, count_paths, retE, dynVars, prev, diskVars>>

\* bits >> k with k at the width of size_t or more is undefined, in a loop
\* that has no exit: the build either never leaves the loop or leaves it
ExhaustiveShiftUndefined ==
  /\ pcE = "inner"
  /\ InnerLoopRuns(k, steps)
  /\ k >= SizeBits
  /\ \E outcome \in {"hung", "check"} : pcE' = outcome
  /\ UNCHANGED <<setting, steps, bits, k, candidate, count_paths, retE,
                 dynVars, prev, diskVars>>

\* the final-position test of a candidate, and bits++
ExhaustiveCheck ==
  /\ pcE = "check"
  /\ count_paths' = IF AtDestination(setting, candidate)
                      THEN U32Add(count_paths, One) ELSE count_paths
  /\ bits' = bits + 1
  /\ pcE' = "outer"
  /\ UNCHANGED <<setting, steps, k, candidate, retE, dynVars, prev, diskVars>>

(***************************************************************************)
(* iceberg_avoiding_dyn_prog                                               *)
(***************************************************************************)
\* the two assertions at the entry of iceberg_avoiding_dyn_prog
DynProgPrecondition(g) ==
  /\ g.rows > 0
  /\ g.columns > 0

\* A is DIM by DIM and zero-initialised; the model keeps the cells written
TableGet(tbl, r, c) == IF <<r, c>> \in DOMAIN tbl THEN tbl[<<r, c>>] ELSE Zero

TableSet(tbl, r, c, v) ==
  [x \in (DOMAIN tbl) \cup {<<r, c>>} |-> IF x = <<r, c>> THEN v ELSE tbl[x]]

\* A after  A[0][0] = 1
InitialTable == TableSet(<<>>, 0, 0, One)

\* whether A[r][c] is an element of the table
InTable(r, c) == r < DIM /\ c < DIM

\* mutant: the loop body without its Iceberg test
CellValueIgnoringIce(g, tbl, r, c) ==
  LET from_above == IF r > 0 THEN TableGet(tbl, r - 1, c) ELSE Zero
      from_left  == IF c > 0 THEN TableGet(tbl, r, c - 1) ELSE Zero
  IN  IF r # 0 \/ c # 0
        THEN U32Add(from_above, from_left)
        ELSE TableGet(tbl, r, c)

\* the value the loop body leaves in A[r][c]
CellValue(g, tbl, r, c) ==
  IF IsIceberg(g, r, c)
    THEN Zero
    ELSE LET from_above == IF r > 0 /\ TableGet(tbl, r - 1, c) # Zero
                             THEN TableGet(tbl, r - 1, c) ELSE Zero
             from_left  == IF c > 0 /\ TableGet(tbl, r, c - 1) # Zero
                             THEN TableGet(tbl, r, c - 1) ELSE Zero
         IN  IF r # 0 \/ c # 0
               THEN U32Add(from_above, from_left)
               ELSE TableGet(tbl, r, c)

\* the element of A the function accesses next
NextAccess(pc, g, r, c) == IF pc = "return" THEN Destination(g) ELSE <<r, c>>

DynProgEntry ==
  /\ pcD = "idle"
  /\ pcE \in {"idle", "done"}
  /\ IF DynProgPrecondition(setting)
       THEN /\ pcD' = "cell"
            /\ A' = InitialTable
       ELSE /\ pcD' = "failed"
            /\ A' = A
  /\ i' = 0
  /\ j' = 0
  /\ UNCHANGED <<setting, retD, exhVars, prev, diskVars>>

\* one iteration of the inner loop, and the two loops' increments and tests
DynProgCell ==
  /\ pcD = "cell"
  /\ InTable(i, j)
  /\ A' = TableSet(A, i, j, CellValue(setting, A, i, j))
  /\ IF j + 1 <= SizeSub(setting.columns, 1)
       THEN /\ j' = j + 1
            /\ i' = i
            /\ pcD' = "cell"
       ELSE /\ j' = 0
            /\ i' = i + 1
            /\ pcD' = IF i + 1 <= SizeSub(setting.rows, 1) THEN "cell" ELSE "return"
  /\ UNCHANGED <<setting, retD, exhVars, prev, diskVars>>

\* return A[setting.rows()-1][setting.columns()-1]
DynProgReturn ==
  /\ pcD = "return"
  /\ InTable(Destination(setting)[1], Destination(setting)[2])
  /\ retD' = TableGet(A, Destination(setting)[1], Destination(setting)[2])
  /\ pcD' = "done"
  /\ UNCHANGED <<setting, i, j, A, exhVars, prev, diskVars>>

\* an access outside the table is undefined: the run crashes, or goes on and
\* returns whatever it finds
DynProgOutOfRange ==
  /\ pcD \in {"cell", "return"}
  /\ ~InTable(NextAccess(pcD, setting, i, j)[1], NextAccess(pcD, setting, i, j)[2])
  /\ \E outcome \in {"crashed", "done"}, v \in {Zero, One, <<Limb - 1, Limb - 1>>} :
       /\ pcD' = outcome
       /\ retD' = v
  /\ UNCHANGED <<setting, i, j, A, exhVars, prev, diskVars>>

\* a caller opens one Iceberg cell of the grid and counts again
Reopen ==
  /\ pcD = "done"
  /\ prev = <<>>
  /\ \E x \in setting.ice :
       setting' = [setting EXCEPT !.ice = @ \ {x}]
  /\ prev' = <<retD>>
  /\ pcD' = "idle"
  /\ A' = <<>>
  /\ UNCHANGED <<i, j, retD, exhVars, diskVars>>

(***************************************************************************)
(* Specifications of the iceberg counters.                                 *)
(***************************************************************************)
IcesIdle ==
  /\ pcE = "idle"
  /\ steps = 0
  /\ bits = 0
  /\ k = 0
  /\ candidate = NewPath
  /\ count_paths = Zero
  /\ retE = Zero
  /\ pcD = "idle"
  /\ i = 0
  /\ j = 0
  /\ A = <<>>
  /\ retD = Zero
  /\ prev = <<>>

DisksIdle ==
  /\ alg = "none"
  /\ after = <<>>
  /\ pcS = "idle"
  /\ iter = 0
  /\ pos = 0
  /\ left_sorted = 0
  /\ right_sorted = 0
  /\ max_iter = 0
  /\ swap_count = 0

\* both counters, in either order, on small grids and on oversized lines
Init ==
  /\ setting \in SmallGrids \cup OversizedGrids
  /\ IcesIdle
  /\ DisksIdle

Next ==
  \/ ExhaustiveEntry
  \/ ExhaustiveOuter
  \/ ExhaustiveInner
  \/ ExhaustiveShiftUndefined
  \/ ExhaustiveCheck
  \/ DynProgEntry
  \/ DynProgCell
  \/ DynProgReturn

Spec == Init /\ [][Next]_vars

\* the dynamic-programming counter on large grids
InitLarge ==
  /\ setting \in LargeGrids
  /\ IcesIdle
  /\ DisksIdle

NextLarge ==
  \/ DynProgEntry
  \/ DynProgCell
  \/ DynProgReturn
  \/ DynProgOutOfRange
  \/ Reopen

SpecLarge == InitLarge /\ [][NextLarge]_vars

(***************************************************************************)
(* disks.hpp: disk_state, sort_left_to_right, sort_lawnmower               *)
(***************************************************************************)
\* disk_state::disk_state(light_count): light at the even indices, dark at
\* the odd ones
DiskState(n) == [x \in 0 .. 2 * n - 1 |-> IF x % 2 = 1 THEN "dark" ELSE "light"]

TotalCount(colors) == Cardinality(DOMAIN colors)
LightCount(colors) == TotalCount(colors) \div 2
IsIndex(colors, x) == x < TotalCount(colors)

\* disk_state::is_alternating: every even index is light
IsAlternating(colors) ==
  \A x \in DOMAIN colors : x % 2 = 0 => colors[x] = "light"

\* disk_state::is_sorted: the first half holds no dark disk
IsSorted(colors) ==
  \A x \in DOMAIN colors : x < TotalCount(colors) \div 2 => colors[x] # "dark"

\* the two assertions of disk_state::swap
SwapAllowed(colors, left_index) ==
  /\ IsIndex(colors, left_index)
  /\ IsIndex(colors, left_index + 1)

\* disk_state::swap, its assertions passed
DiskSwap(colors, left_index) ==
  [colors EXCEPT ![left_index] = colors[left_index + 1],
                 ![left_index + 1] = colors[left_index]]

\* sort_lawnmower:  max_iter = after.light_count()/2
LawnmowerMaxIter(n) == n \div 2

\* mutant: the backward pass started one disk to the left only
BackwardStartOneLeft(right) == SizeSub(right, 1)

\* sort_lawnmower: the backward pass starts at  k = right_sorted - 2
BackwardStart(right) == SizeSub(right, 2)

\* the entry of sort_left_to_right, up to its outer loop
SortLeftToRightEntry ==
  /\ pcS = "idle"
  /\ alg = "left_to_right"
  /\ IF ~IsAlternating(after)
       THEN /\ pcS' = "failed"
            /\ UNCHANGED <<after, max_iter, left_sorted, right_sorted>>
       ELSE IF TotalCount(after) = 2
         THEN /\ pcS' = "done"
              /\ UNCHANGED <<after, max_iter, left_sorted, right_sorted>>
         ELSE /\ pcS' = "outer"
              /\ after' = DiskState(LightCount(after))
              /\ max_iter' = LightCount(after)
              /\ left_sorted' = 1
              /\ right_sorted' = SizeSub(TotalCount(after), 1)
  /\ swap_count' = 0
  /\ iter' = 0
  /\ UNCHANGED <<alg, pos, iceVars>>

\* the entry of sort_lawnmower, up to its outer loop
SortLawnmowerEntry ==
  /\ pcS = "idle"
  /\ alg = "lawnmower"
  /\ IF ~IsAlternating(after)
       THEN /\ pcS' = "failed"
            /\ swap_count' = 0
            /\ UNCHANGED <<after, max_iter, left_sorted, right_sorted>>
       ELSE IF TotalCount(after) = 2
         THEN /\ pcS' = "done"
              /\ swap_count' = 0
              /\ UNCHANGED <<after, max_iter, left_sorted, right_sorted>>
         ELSE IF TotalCount(after) = 4
           THEN /\ pcS' = IF SwapAllowed(DiskState(LightCount(after)), 1)
                            THEN "done" ELSE "failed"
                /\ after' = IF SwapAllowed(DiskState(LightCount(after)), 1)
                              THEN DiskSwap(DiskState(LightCount(after)), 1)
                              ELSE DiskState(LightCount(after))
                /\ swap_count' = 1
                /\ UNCHANGED <<max_iter, left_sorted, right_sorted>>
           ELSE /\ pcS' = "outer"
                /\ after' = DiskState(LightCount(after))
                /\ max_iter' = LawnmowerMaxIter(LightCount(after))
                /\ left_sorted' = 1
                /\ right_sorted' = SizeSub(TotalCount(after), 1)
                /\ swap_count' = 0
  /\ iter' = 0
  /\ UNCHANGED <<alg, pos, iceVars>>

\* the outer loop's test  i < max_iter  of either algorithm, and the return
SortOuter ==
  /\ pcS = "outer"
  /\ IF iter < max_iter
       THEN /\ pcS' = "forward"
            /\ pos' = left_sorted
       ELSE /\ pcS' = "done"
            /\ pos' = pos
  /\ UNCHANGED <<alg, after, iter, left_sorted, right_sorted, max_iter,
                 swap_count, iceVars>>

\* the forward pass: its test  j < right_sorted, one swap and  j = j + 2;
\* at its end one more disk is sorted on each side
SortForward ==
  /\ pcS = "forward"
  /\ IF pos < right_sorted
       THEN /\ pcS' = IF SwapAllowed(after, pos) THEN "forward" ELSE "failed"
            /\ after' = IF SwapAllowed(after, pos) THEN DiskSwap(after, pos) ELSE after
            /\ swap_count' = IF SwapAllowed(after, pos) THEN swap_count + 1 ELSE swap_count
            /\ pos' = pos + 2
            /\ UNCHANGED <<iter, left_sorted, right_sorted>>
       ELSE /\ left_sorted' = left_sorted + 1
            /\ right_sorted' = SizeSub(right_sorted, 1)
            /\ IF alg = "lawnmower"
                 THEN /\ pcS' = "backward"
                      /\ pos' = BackwardStart(SizeSub(right_sorted, 1))
                      /\ iter' = iter
                 ELSE /\ pcS' = "outer"
                      /\ pos' = pos
                      /\ iter' = iter + 1
            /\ UNCHANGED <<after, swap_count>>
  /\ UNCHANGED <<alg, max_iter, iceVars>>

\* the backward pass of sort_lawnmower: its test  k >= left_sorted, one swap
\* and  k = k - 2; at its end one more disk is sorted on each side
SortBackward ==
  /\ pcS = "backward"
  /\ IF pos >= left_sorted
       THEN /\ pcS' = IF SwapAllowed(after, pos) THEN "backward" ELSE "failed"
            /\ after' = IF SwapAllowed(after, pos) THEN DiskSwap(after, pos) ELSE after
            /\ swap_count' = IF SwapAllowed(after, pos) THEN swap_count + 1 ELSE swap_count
            /\ pos' = SizeSub(pos, 2)
            /\ UNCHANGED <<iter, left_sorted, right_sorted>>
       ELSE /\ left_sorted' = left_sorted + 1
            /\ right_sorted' = SizeSub(right_sorted, 1)
            /\ iter' = iter + 1
            /\ pcS' = "outer"
            /\ UNCHANGED <<after, swap_count, pos>>
  /\ UNCHANGED <<alg, max_iter, iceVars>>

\* either algorithm on an alternating row of 1 .. MaxLight light disks
InitDisks ==
  /\ alg \in {"left_to_right", "lawnmower"}
  /\ after \in {DiskState(n) : n \in 1 .. MaxLight}
  /\ pcS = "idle"
  /\ iter = 0
  /\ pos = 0
  /\ left_sorted = 0
  /\ right_sorted = 0
  /\ max_iter = 0
  /\ swap_count = 0
  /\ setting = Grid(1, 1, {})
  /\ IcesIdle

NextDisks ==
  \/ SortLeftToRightEntry
  \/ SortLawnmowerEntry
  \/ SortOuter
  \/ SortForward
  \/ SortBackward

SpecDisks == InitDisks /\ [][NextDisks]_vars

(***************************************************************************)
(* Properties.                                                             *)
(***************************************************************************)
\* a call that has ended: returned, aborted by an assertion, or lost to
\* undefined behaviour
ExhaustiveEnded == pcE \in {"done", "failed", "hung"}
DynProgEnded == pcD \in {"done", "failed", "crashed"}

\* the binomial coefficient C(n, m)
RECURSIVE Binomial(_, _)
Binomial(n, m) ==
  IF m = 0 \/ m = n THEN 1 ELSE Binomial(n - 1, m - 1) + Binomial(n - 1, m)

\* C1: on every non-empty grid with rows + columns - 2 < 64 the two counters
\* both return, and return the same value.
C1_Agreement ==
  (/\ NonEmpty(setting)
   /\ PathSteps(setting) < MaxPathSteps
   /\ ExhaustiveEnded
   /\ DynProgEnded)
    => (pcE = "done" /\ pcD = "done" /\ retE = retD)

\* C2: on the single-cell grid both counters complete and return 1.
C2_SingleCell ==
  (setting.rows = 1 /\ setting.columns = 1)
    => /\ ExhaustiveEnded => (pcE = "done" /\ retE = One)
       /\ DynProgEnded => (pcD = "done" /\ retD = One)

\* C3: every element of the table that iceberg_avoiding_dyn_prog reads or
\* writes, the final read included, is inside the table, whatever the
\* dimensions of the grid.
C3_TableAccessInBounds ==
  pcD \in {"cell", "return"}
    => InTable(NextAccess(pcD, setting, i, j)[1], NextAccess(pcD, setting, i, j)[2])

\* C4: every count iceberg_avoiding_dyn_prog stores is the mathematical sum
\* from_above + from_left of the two counts it adds: no sum reaches 2^32 and
\* wraps.
C4_NoSilentWrap ==
  \A x \in DOMAIN A :
    (x # <<0, 0>> /\ ~IsIceberg(setting, x[1], x[2]))
      => ~U32Carry(IF x[1] > 0 THEN TableGet(A, x[1] - 1, x[2]) ELSE Zero,
                   IF x[2] > 0 THEN TableGet(A, x[1], x[2] - 1) ELSE Zero)

\* C5: on every r x c grid without Iceberg cells both counters return the
\* binomial coefficient C(r + c - 2, r - 1) (the exhaustive counter where it
\* accepts the grid).
C5_NoObstacleBinomial ==
  (NonEmpty(setting) /\ setting.ice = {})
    => LET expected == U32(Binomial(setting.rows + setting.columns - 2,
                                    setting.rows - 1))
       IN  /\ (PathSteps(setting) < MaxPathSteps /\ ExhaustiveEnded)
                => (pcE = "done" /\ retE = expected)
           /\ DynProgEnded => (pcD = "done" /\ retD = expected)

C7_Monotone ==
  (pcD = "done" /\ prev # <<>>) => ~U32Less(retD, prev[1])

\* C8: a call whose precondition is violated (zero rows or zero columns for
\* either counter, rows + columns - 2 >= 64 for the exhaustive one) is at the
\* failure state as soon as it is entered: it returns no count, enumerates
\* no candidate and fills no table cell.
C8_FailsAtEntry ==
  /\ ~NonEmpty(setting)
       => /\ pcE \in {"idle", "failed"}
          /\ pcD \in {"idle", "failed"}
          /\ bits = 0 /\ count_paths = Zero /\ candidate = NewPath
          /\ A = <<>>
  /\ (NonEmpty(setting) /\ PathSteps(setting) >= MaxPathSteps)
       => /\ pcE \in {"idle", "failed"}
          /\ bits = 0 /\ count_paths = Zero /\ candidate = NewPath

\* C8 witness: on a line of path length 64 or more the exhaustive counter
\* has failed at entry, after the dynamic-programming counter returned.
C8_Witness ==
  /\ NonEmpty(setting)
  /\ PathSteps(setting) >= MaxPathSteps
  /\ pcE = "failed"
  /\ pcD = "done"

\* C9: a candidate of iceberg_avoiding_exhaustive that has skipped an
\* attempted step (it made fewer steps than the k moves attempted) is not at
\* the destination, so no candidate with a skipped step is counted.
C9_SkipNeverArrives ==
  (pcE \in {"inner", "check"} /\ candidate.row + candidate.col < k)
    => ~AtDestination(setting, candidate)

\* C10: sort_left_to_right and sort_lawnmower never fail an assertion of
\* disk_state::swap, and the state they return has every light disk in the
\* left half and every dark disk in the right half.
C10_DisksSorted ==
  /\ pcS # "failed"
  /\ pcS = "done"
       => /\ IsSorted(after)
          /\ \A x \in DOMAIN after :
               after[x] = (IF x < LightCount(after) THEN "light" ELSE "dark")

\* C10 witness: sort_lawnmower has returned a row of 10 disks after swaps in
\* both directions.
C10_Witness ==
  /\ alg = "lawnmower"
  /\ pcS = "done"
  /\ TotalCount(after) = 10
  /\ swap_count > 4

====
